---- MODULE Spec2Model ----
(***************************************************************************)
(* Model of the Huffman codec of src/huffman.py: the encode pipeline of    *)
(* compress (frequency table, tree, code table, framing, padding) and the  *)
(* decode pipeline of decompress.                                          *)
(*                                                                         *)
(* Strings are sequences of code points, bit strings are sequences over    *)
(* {0,1}, byte strings are sequences over 0..255, and a Python dict is the *)
(* sequence of its [k, v] items in insertion order.                        *)
(***************************************************************************)
EXTENDS Integers, Sequences, FiniteSets, TLC

VARIABLES text, pc, stack, merges, root, mapping_dict, reverse_mapping_dict,
          encoded_text, encoded_tree, encoded_text_tree,
          padded_encoded_text_tree, output, truncated, b,
          d_encoded_text, encoded_mapping, d_reverse_mapping_dict,
          decoded_text, code, error

vars == <<text, pc, stack, merges, root, mapping_dict, reverse_mapping_dict,
          encoded_text, encoded_tree, encoded_text_tree,
          padded_encoded_text_tree, output, truncated, b,
          d_encoded_text, encoded_mapping, d_reverse_mapping_dict,
          decoded_text, code, error>>

(***************************************************************************)
(* Bounds of the model.                                                    *)
(***************************************************************************)
\* number of distinct symbols an input text may draw from
NumSymbols == 4
\* longest input text
MaxLen == 4
\* longest input text handed to the tree builder and code assigner on their own
MaxBuildLen == 6
\* longest encoded text handed to the framing functions on their own
MaxBits == 3
\* longest bit string handed to decode_bits on its own
MaxScanBits == 4
\* longest text whose code table is handed to decode_bits on its own
MaxTableLen == 3

\* the symbols, as code points: a b " c \ and e-acute
SymbolPool == <<97, 98, 34, 99, 92, 233>>
Alphabet == {SymbolPool[i] : i \in 1..NumSymbols}

\* embedded-table bit lengths handed to the framing functions on their own
TreeBitLens == {16, 80, 65528, 65536}

\* the char of an internal node (TreeNode(frequency, None))
NoChar == -1

Min(x, y) == IF x < y THEN x ELSE y

SeqsUpTo(S, n) == UNION {[1..k -> S] : k \in 0..n}

(***************************************************************************)
(* Python built-ins.                                                       *)
(***************************************************************************)
\* key in d
DictHas(d, k) == \E i \in 1..Len(d) : d[i].k = k

\* d[key]
DictGet(d, k) == d[CHOOSE i \in 1..Len(d) : d[i].k = k].v

\* d[key] = value : an existing key keeps its position
DictPut(d, k, v) ==
    IF DictHas(d, k)
    THEN [i \in 1..Len(d) |-> IF d[i].k = k THEN [k |-> k, v |-> v] ELSE d[i]]
    ELSE Append(d, [k |-> k, v |-> v])

\* s[:n]
PyPrefix(s, n) == SubSeq(s, 1, Min(n, Len(s)))

\* s[n:]
PyFrom(s, n) == SubSeq(s, n + 1, Len(s))

\* s[-n:]  (s[-0:] is the whole string)
PyLast(s, n) == IF n = 0 \/ n >= Len(s) THEN s
                ELSE SubSeq(s, Len(s) - n + 1, Len(s))

\* s[:-n]  (s[:-0] is the empty string)
PyDropLast(s, n) == IF n = 0 \/ n >= Len(s) THEN <<>>
                    ELSE SubSeq(s, 1, Len(s) - n)

Zeros(n) == [i \in 1..n |-> 0]

\* the binary digits of n, most significant first ("0" for 0)
RECURSIVE Bin(_)
Bin(n) == IF n < 2 THEN <<n>> ELSE Append(Bin(n \div 2), n % 2)

\* '{0:0<width>b}'.format(n) : width is a minimum, never a maximum
FormatBin(n, width) ==
    LET digits == Bin(n)
    IN  IF Len(digits) >= width THEN digits
        ELSE Zeros(width - Len(digits)) \o digits

\* int(bits, 2) of a non-empty bit string
RECURSIVE BitsToInt(_)
BitsToInt(bits) ==
    IF bits = <<>> THEN 0
    ELSE 2 * BitsToInt(SubSeq(bits, 1, Len(bits) - 1)) + bits[Len(bits)]

\* BitArray(bytes).bin
BytesToBits(bytes) ==
    [i \in 1..(8 * Len(bytes)) |->
        (bytes[((i - 1) \div 8) + 1] \div (2 ^ (7 - ((i - 1) % 8)))) % 2]

\* BitArray(bin = bits).tofile : a last partial byte is filled with zeros
BitsToBytes(bits) ==
    LET bit(i) == IF i <= Len(bits) THEN bits[i] ELSE 0
    IN  [j \in 1..((Len(bits) + 7) \div 8) |->
            128 * bit(8*j - 7) + 64 * bit(8*j - 6) + 32 * bit(8*j - 5)
          + 16 * bit(8*j - 4) + 8 * bit(8*j - 3) + 4 * bit(8*j - 2)
          + 2 * bit(8*j - 1) + bit(8*j)]

(***************************************************************************)
(* TreeNode, build_frequency, the descending sort, build_huffman_tree.     *)
(***************************************************************************)
\* TreeNode(freq, char) : left and right are None, here the empty sequence;
\* a child is the one-element sequence holding the node
TreeNode(freq, char) ==
    [freq |-> freq, char |-> char, left |-> <<>>, right |-> <<>>]

RECURSIVE build_frequency(_)
build_frequency(t) ==
    IF t = <<>> THEN <<>>
    ELSE LET frequency == build_frequency(SubSeq(t, 1, Len(t) - 1))
             character == t[Len(t)]
         IN  IF DictHas(frequency, character)
             THEN DictPut(frequency, character,
                          DictGet(frequency, character) + 1)
             ELSE DictPut(frequency, character, 1)

\* sorted(items, key = count, reverse = True) : stable, so equal counts keep
\* their first-occurrence order
RECURSIVE SortedByCount(_)
SortedByCount(items) ==
    IF items = <<>> THEN <<>>
    ELSE LET done == SortedByCount(SubSeq(items, 1, Len(items) - 1))
             x    == items[Len(items)]
             keep == Cardinality({i \in 1..Len(done) : done[i].v >= x.v})
         IN  SubSeq(done, 1, keep) \o <<x>> \o SubSeq(done, keep + 1, Len(done))

\* the stack of leaves compress builds from the sorted table
LeafStack(frequency) ==
    [i \in 1..Len(frequency) |-> TreeNode(frequency[i].v, frequency[i].k)]

\* a merge whose weight forgets the second node
MergeNodesLeftOnly(s) ==
    LET node_1 == s[Len(s)]
        node_2 == s[Len(s) - 1]
        merged == [freq |-> node_1.freq, char |-> NoChar,
                   left |-> <<node_1>>, right |-> <<node_2>>]
    IN  <<merged>> \o SubSeq(s, 1, Len(s) - 2)

\* one iteration of the loop of build_huffman_tree
MergeNodes(s) ==
    LET node_1 == s[Len(s)]
        node_2 == s[Len(s) - 1]
        merged == [freq |-> node_1.freq + node_2.freq, char |-> NoChar,
                   left |-> <<node_1>>, right |-> <<node_2>>]
    IN  <<merged>> \o SubSeq(s, 1, Len(s) - 2)

(***************************************************************************)
(* Mapping.                                                                *)
(***************************************************************************)
NoDicts == [mapping_dict |-> <<>>, reverse_mapping_dict |-> <<>>]

\* a traversal that descends right with the bit of the left branch
RECURSIVE mapSameBit(_, _, _)
mapSameBit(dicts, node, bit_code) ==
    IF node = <<>> THEN dicts
    ELSE IF node[1].char # NoChar
    THEN [mapping_dict |-> DictPut(dicts.mapping_dict, node[1].char, bit_code),
          reverse_mapping_dict |->
              DictPut(dicts.reverse_mapping_dict, bit_code, node[1].char)]
    ELSE mapSameBit(mapSameBit(dicts, node[1].left, bit_code \o <<0>>),
                    node[1].right, bit_code \o <<0>>)

\* Mapping.map
RECURSIVE map(_, _, _)
map(dicts, node, bit_code) ==
    IF node = <<>> THEN dicts
    ELSE IF node[1].char # NoChar
    THEN [mapping_dict |-> DictPut(dicts.mapping_dict, node[1].char, bit_code),
          reverse_mapping_dict |->
              DictPut(dicts.reverse_mapping_dict, bit_code, node[1].char)]
    ELSE map(map(dicts, node[1].left, bit_code \o <<0>>),
             node[1].right, bit_code \o <<1>>)

\* Mapping.create_mapping : list.pop() raises IndexError on an empty list
create_mapping(tree) ==
    IF tree = <<>>
    THEN [error |-> "IndexError", root |-> <<>>, tree |-> tree,
          dicts |-> NoDicts]
    ELSE [error |-> "", root |-> <<tree[Len(tree)]>>,
          tree |-> SubSeq(tree, 1, Len(tree) - 1),
          dicts |-> map(NoDicts, <<tree[Len(tree)]>>, <<>>)]

(***************************************************************************)
(* encode_text, encode_mapping, encode_text_tree, pad_encoded_text_tree.   *)
(***************************************************************************)
RECURSIVE encode_text(_, _)
encode_text(t, m) ==
    IF t = <<>> THEN <<>>
    ELSE encode_text(SubSeq(t, 1, Len(t) - 1), m) \o DictGet(m, t[Len(t)])

HexDigit(d) == IF d < 10 THEN 48 + d ELSE 87 + d

\* json.dumps of one character of a string (ensure_ascii)
EscapeChar(c) ==
    IF c = 34 THEN <<92, 34>>
    ELSE IF c = 92 THEN <<92, 92>>
    ELSE IF c = 10 THEN <<92, 110>>
    ELSE IF c = 13 THEN <<92, 114>>
    ELSE IF c = 9 THEN <<92, 116>>
    ELSE IF c = 12 THEN <<92, 102>>
    ELSE IF c = 8 THEN <<92, 98>>
    ELSE IF c >= 32 /\ c <= 126 THEN <<c>>
    ELSE <<92, 117, HexDigit((c \div 4096) % 16), HexDigit((c \div 256) % 16),
           HexDigit((c \div 16) % 16), HexDigit(c % 16)>>

RECURSIVE EscapeString(_)
EscapeString(s) ==
    IF s = <<>> THEN <<>>
    ELSE EscapeString(SubSeq(s, 1, Len(s) - 1)) \o EscapeChar(s[Len(s)])

\* json.dumps of a string
JsonString(s) == <<34>> \o EscapeString(s) \o <<34>>

\* a code as the str of '0' and '1' it is in the program
BitStr(bits) == [i \in 1..Len(bits) |-> 48 + bits[i]]

RECURSIVE JsonItems(_)
JsonItems(d) ==
    IF d = <<>> THEN <<>>
    ELSE LET item == JsonString(BitStr(d[Len(d)].k)) \o <<58, 32>>
                     \o JsonString(<<d[Len(d)].v>>)
         IN  IF Len(d) = 1 THEN item
             ELSE JsonItems(SubSeq(d, 1, Len(d) - 1)) \o <<44, 32>> \o item

\* json.dumps(reverse_mapping_dict).encode('utf-8') : the text is ASCII
json_dumps(d) == <<123>> \o JsonItems(d) \o <<125>>

encode_mapping(d) == BytesToBits(json_dumps(d))

encode_text_tree(etext, etree) ==
    LET extra_bits == Len(etree)
        tree_info  == FormatBin(extra_bits, 16)
    IN  tree_info \o etext \o etree

\* a padding that leaves an aligned string alone
pad_aligned_unpadded(ett) ==
    LET padding      == (8 - (Len(ett) % 8)) % 8
        padding_info == FormatBin(padding, 8)
    IN  padding_info \o ett \o Zeros(padding)

pad_encoded_text_tree(ett) ==
    LET padding      == 8 - (Len(ett) % 8)
        padding_info == FormatBin(padding, 8)
    IN  padding_info \o ett \o Zeros(padding)

(***************************************************************************)
(* remove_padding_bits, get_encoded_text_mapping.                          *)
(***************************************************************************)
\* int('', 2) raises ValueError
remove_padding_bits(bit_string) ==
    LET padding_info == PyPrefix(bit_string, 8)
    IN  IF padding_info = <<>>
        THEN [error |-> "ValueError", bit_string |-> <<>>]
        ELSE [error |-> "",
              bit_string |-> PyDropLast(PyFrom(bit_string, 8),
                                        BitsToInt(padding_info))]

get_encoded_text_mapping(bit_string) ==
    LET tree_info == PyPrefix(bit_string, 16)
    IN  IF tree_info = <<>>
        THEN [error |-> "ValueError", bit_string |-> <<>>,
              encoded_tree |-> <<>>]
        ELSE LET encoded_tree_bits == BitsToInt(tree_info)
                 rest == PyFrom(bit_string, 16)
             IN  [error |-> "",
                  bit_string |-> PyDropLast(rest, encoded_tree_bits),
                  encoded_tree |-> PyLast(rest, encoded_tree_bits)]

(***************************************************************************)
(* decode_mapping : int(bits, 2).to_bytes(len // 8), bytes.decode('utf-8'),*)
(* json.loads.                                                             *)
(***************************************************************************)
IsCont(x) == x >= 128 /\ x <= 191

\* bytes.decode('utf-8')
RECURSIVE utf8_decode(_, _, _)
utf8_decode(bs, i, acc) ==
    IF i > Len(bs) THEN [ok |-> TRUE, str |-> acc]
    ELSE IF bs[i] < 128 THEN utf8_decode(bs, i + 1, Append(acc, bs[i]))
    ELSE IF /\ bs[i] >= 194 /\ bs[i] <= 223
            /\ i + 1 <= Len(bs) /\ IsCont(bs[i + 1])
    THEN utf8_decode(bs, i + 2,
                     Append(acc, (bs[i] - 192) * 64 + (bs[i + 1] - 128)))
    ELSE IF /\ bs[i] >= 224 /\ bs[i] <= 239
            /\ i + 2 <= Len(bs) /\ IsCont(bs[i + 1]) /\ IsCont(bs[i + 2])
            /\ (bs[i] = 224 => bs[i + 1] >= 160)
            /\ (bs[i] = 237 => bs[i + 1] <= 159)
    THEN utf8_decode(bs, i + 3,
                     Append(acc, (bs[i] - 224) * 4096 + (bs[i + 1] - 128) * 64
                                 + (bs[i + 2] - 128)))
    ELSE IF /\ bs[i] >= 240 /\ bs[i] <= 244
            /\ i + 3 <= Len(bs) /\ IsCont(bs[i + 1]) /\ IsCont(bs[i + 2])
            /\ IsCont(bs[i + 3])
            /\ (bs[i] = 240 => bs[i + 1] >= 144)
            /\ (bs[i] = 244 => bs[i + 1] <= 143)
    THEN utf8_decode(bs, i + 4,
                     Append(acc, (bs[i] - 240) * 262144
                                 + (bs[i + 1] - 128) * 4096
                                 + (bs[i + 2] - 128) * 64 + (bs[i + 3] - 128)))
    ELSE [ok |-> FALSE, str |-> <<>>]

IsWs(c) == c \in {32, 9, 10, 13}

RECURSIVE SkipWs(_, _)
SkipWs(s, i) == IF i <= Len(s) /\ IsWs(s[i]) THEN SkipWs(s, i + 1) ELSE i

HexVal(c) == IF c >= 48 /\ c <= 57 THEN c - 48
             ELSE IF c >= 97 /\ c <= 102 THEN c - 87
             ELSE IF c >= 65 /\ c <= 70 THEN c - 55
             ELSE -1

Unescape(e) == IF e = 98 THEN 8 ELSE IF e = 102 THEN 12 ELSE IF e = 110 THEN 10
               ELSE IF e = 114 THEN 13 ELSE IF e = 116 THEN 9 ELSE e

BadString == [ok |-> FALSE, val |-> <<>>, next |-> 0]

\* the JSON string whose opening quote is just before position i
\* (code points of the basic plane; surrogate pairs are not joined)
RECURSIVE ScanString(_, _, _)
ScanString(s, i, acc) ==
    IF i > Len(s) THEN BadString
    ELSE IF s[i] = 34 THEN [ok |-> TRUE, val |-> acc, next |-> i + 1]
    ELSE IF s[i] < 32 THEN BadString
    ELSE IF s[i] # 92 THEN ScanString(s, i + 1, Append(acc, s[i]))
    ELSE IF i + 1 > Len(s) THEN BadString
    ELSE IF s[i + 1] = 117
    THEN IF i + 5 > Len(s) \/ (\E j \in 2..5 : HexVal(s[i + j]) < 0)
         THEN BadString
         ELSE ScanString(s, i + 6,
                  Append(acc, 4096 * HexVal(s[i + 2]) + 256 * HexVal(s[i + 3])
                              + 16 * HexVal(s[i + 4]) + HexVal(s[i + 5])))
    ELSE IF s[i + 1] \in {34, 92, 47, 98, 102, 110, 114, 116}
    THEN ScanString(s, i + 2, Append(acc, Unescape(s[i + 1])))
    ELSE BadString

BadObject == [ok |-> FALSE, dict |-> <<>>, next |-> 0]

\* the members of a JSON object from the key at position i on; the values
\* are strings, as in every table encode_mapping writes
RECURSIVE ParseMembers(_, _, _)
ParseMembers(s, i, d) ==
    IF i > Len(s) \/ s[i] # 34 THEN BadObject
    ELSE LET key == ScanString(s, i + 1, <<>>)
         IN  IF ~key.ok THEN BadObject
             ELSE LET colon == SkipWs(s, key.next)
                  IN  IF colon > Len(s) \/ s[colon] # 58 THEN BadObject
                      ELSE LET vstart == SkipWs(s, colon + 1)
                           IN  IF vstart > Len(s) \/ s[vstart] # 34
                               THEN BadObject
                               ELSE LET val == ScanString(s, vstart + 1, <<>>)
                                    IN  IF ~val.ok THEN BadObject
                                        ELSE LET after == SkipWs(s, val.next)
                                                 d2 == DictPut(d, key.val, val.val)
                                             IN  IF after > Len(s) THEN BadObject
                                                 ELSE IF s[after] = 125
                                                 THEN [ok |-> TRUE, dict |-> d2,
                                                       next |-> after + 1]
                                                 ELSE IF s[after] = 44
                                                 THEN ParseMembers(s,
                                                          SkipWs(s, after + 1), d2)
                                                 ELSE BadObject

\* json.loads of a document that is an object of strings; trailing text
\* other than whitespace is an error ("Extra data")
json_loads(s) ==
    LET i == SkipWs(s, 1)
    IN  IF i > Len(s) \/ s[i] # 123 THEN BadObject
        ELSE LET j   == SkipWs(s, i + 1)
                 obj == IF j <= Len(s) /\ s[j] = 125
                        THEN [ok |-> TRUE, dict |-> <<>>, next |-> j + 1]
                        ELSE ParseMembers(s, j, <<>>)
             IN  IF obj.ok /\ SkipWs(s, obj.next) > Len(s) THEN obj
                 ELSE BadObject

\* a decode_mapping that answers an empty table when the bits do not parse
decode_mapping_lenient(em) ==
    IF em = <<>> THEN [error |-> "", res_dict |-> <<>>]
    ELSE LET r == Len(em) % 8
         IN  IF \E i \in 1..r : em[i] = 1
             THEN [error |-> "", res_dict |-> <<>>]
             ELSE LET res_bytes == BitsToBytes(SubSeq(em, r + 1, Len(em)))
                      str == utf8_decode(res_bytes, 1, <<>>)
                  IN  IF ~str.ok THEN [error |-> "", res_dict |-> <<>>]
                      ELSE LET obj == json_loads(str.str)
                           IN  [error |-> "", res_dict |-> obj.dict]

\* to_bytes(len // 8) raises OverflowError when the number needs more bytes,
\* which is when one of the leading len % 8 bits is set
decode_mapping(em) ==
    IF em = <<>> THEN [error |-> "ValueError", res_dict |-> <<>>]
    ELSE LET r == Len(em) % 8
         IN  IF \E i \in 1..r : em[i] = 1
             THEN [error |-> "OverflowError", res_dict |-> <<>>]
             ELSE LET res_bytes == BitsToBytes(SubSeq(em, r + 1, Len(em)))
                      str == utf8_decode(res_bytes, 1, <<>>)
                  IN  IF ~str.ok
                      THEN [error |-> "UnicodeDecodeError", res_dict |-> <<>>]
                      ELSE LET obj == json_loads(str.str)
                           IN  IF ~obj.ok
                               THEN [error |-> "JSONDecodeError",
                                     res_dict |-> <<>>]
                               ELSE [error |-> "", res_dict |-> obj.dict]

(***************************************************************************)
(* decode_bits.                                                            *)
(***************************************************************************)
\* the loop of decode_bits from bit i on
RECURSIVE decode_scan(_, _, _, _, _)
decode_scan(bits, reverse_dict, i, dtext, acc) ==
    IF i > Len(bits) THEN [decoded_text |-> dtext, code |-> acc]
    ELSE LET c == Append(acc, bits[i])
         IN  IF DictHas(reverse_dict, BitStr(c))
             THEN decode_scan(bits, reverse_dict, i + 1,
                              dtext \o DictGet(reverse_dict, BitStr(c)), <<>>)
             ELSE decode_scan(bits, reverse_dict, i + 1, dtext, c)

\* decode_bits : the text it returns and the accumulator it returns with
decode_bits(bits, reverse_dict) == decode_scan(bits, reverse_dict, 1, <<>>, <<>>)

(***************************************************************************)
(* The encode pipeline of compress, one action per call.                   *)
(***************************************************************************)
Texts == SeqsUpTo(Alphabet, MaxLen)

Idle ==
    /\ stack = <<>> /\ merges = 0 /\ root = <<>>
    /\ mapping_dict = <<>> /\ reverse_mapping_dict = <<>>
    /\ encoded_text = <<>> /\ encoded_tree = <<>> /\ encoded_text_tree = <<>>
    /\ padded_encoded_text_tree = <<>> /\ output = <<>>
    /\ truncated = FALSE /\ b = <<>>
    /\ d_encoded_text = <<>> /\ encoded_mapping = <<>>
    /\ d_reverse_mapping_dict = <<>>
    /\ decoded_text = <<>> /\ code = <<>> /\ error = ""

Init ==
    /\ text \in Texts
    /\ pc = "start"
    /\ Idle

\* compress, lines 106-112 : the sorted frequency table and the leaves
BuildFrequency ==
    /\ pc = "start"
    /\ stack' = LeafStack(SortedByCount(build_frequency(text)))
    /\ pc' = "build"
    /\ UNCHANGED <<text, merges, root, mapping_dict, reverse_mapping_dict,
                   encoded_text, encoded_tree, encoded_text_tree,
                   padded_encoded_text_tree, output, truncated, b,
                   d_encoded_text, encoded_mapping, d_reverse_mapping_dict,
                   decoded_text, code, error>>

\* build_huffman_tree : one iteration of the while loop
Merge ==
    /\ pc = "build"
    /\ Len(stack) > 1
    /\ stack' = MergeNodes(stack)
    /\ merges' = merges + 1
    /\ UNCHANGED <<text, pc, root, mapping_dict, reverse_mapping_dict,
                   encoded_text, encoded_tree, encoded_text_tree,
                   padded_encoded_text_tree, output, truncated, b,
                   d_encoded_text, encoded_mapping, d_reverse_mapping_dict,
                   decoded_text, code, error>>

\* the loop has ended; Mapping(huffman_tree).create_mapping()
CreateMapping ==
    /\ pc = "build"
    /\ ~(Len(stack) > 1)
    /\ LET r == create_mapping(stack)
       IN  /\ stack' = r.tree
           /\ root' = r.root
           /\ mapping_dict' = r.dicts.mapping_dict
           /\ reverse_mapping_dict' = r.dicts.reverse_mapping_dict
           /\ error' = r.error
           /\ pc' = IF r.error = "" THEN "mapped" ELSE "failed"
    /\ UNCHANGED <<text, merges, encoded_text, encoded_tree, encoded_text_tree,
                   padded_encoded_text_tree, output, truncated, b,
                   d_encoded_text, encoded_mapping, d_reverse_mapping_dict,
                   decoded_text, code>>

EncodeText ==
    /\ pc = "mapped"
    /\ encoded_text' = encode_text(text, mapping_dict)
    /\ pc' = "text_encoded"
    /\ UNCHANGED <<text, stack, merges, root, mapping_dict,
                   reverse_mapping_dict, encoded_tree, encoded_text_tree,
                   padded_encoded_text_tree, output, truncated, b,
                   d_encoded_text, encoded_mapping, d_reverse_mapping_dict,
                   decoded_text, code, error>>

EncodeMapping ==
    /\ pc = "text_encoded"
    /\ encoded_tree' = encode_mapping(reverse_mapping_dict)
    /\ pc' = "tree_encoded"
    /\ UNCHANGED <<text, stack, merges, root, mapping_dict,
                   reverse_mapping_dict, encoded_text, encoded_text_tree,
                   padded_encoded_text_tree, output, truncated, b,
                   d_encoded_text, encoded_mapping, d_reverse_mapping_dict,
                   decoded_text, code, error>>

EncodeTextTree ==
    /\ pc = "tree_encoded"
    /\ encoded_text_tree' = encode_text_tree(encoded_text, encoded_tree)
    /\ pc' = "framed"
    /\ UNCHANGED <<text, stack, merges, root, mapping_dict,
                   reverse_mapping_dict, encoded_text, encoded_tree,
                   padded_encoded_text_tree, output, truncated, b,
                   d_encoded_text, encoded_mapping, d_reverse_mapping_dict,
                   decoded_text, code, error>>

\* pad_encoded_text_tree, then BitArray(bin = ...).tofile(output)
PadAndWrite ==
    /\ pc = "framed"
    /\ padded_encoded_text_tree' = pad_encoded_text_tree(encoded_text_tree)
    /\ output' = BitsToBytes(padded_encoded_text_tree')
    /\ pc' = "written"
    /\ UNCHANGED <<text, stack, merges, root, mapping_dict,
                   reverse_mapping_dict, encoded_text, encoded_tree,
                   encoded_text_tree, truncated, b,
                   d_encoded_text, encoded_mapping, d_reverse_mapping_dict,
                   decoded_text, code, error>>

(***************************************************************************)
(* The decode pipeline of decompress, one action per call.                 *)
(***************************************************************************)
\* decompress reads the file compress wrote
ReadBuffer ==
    /\ pc = "written"
    /\ b' = BytesToBits(output)
    /\ truncated' = FALSE
    /\ pc' = "read"
    /\ UNCHANGED <<text, stack, merges, root, mapping_dict,
                   reverse_mapping_dict, encoded_text, encoded_tree,
                   encoded_text_tree, padded_encoded_text_tree, output,
                   d_encoded_text, encoded_mapping, d_reverse_mapping_dict,
                   decoded_text, code, error>>

\* decompress reads the file compress wrote, less its last byte
ReadTruncated ==
    /\ pc = "written"
    /\ b' = BytesToBits(SubSeq(output, 1, Len(output) - 1))
    /\ truncated' = TRUE
    /\ pc' = "read"
    /\ UNCHANGED <<text, stack, merges, root, mapping_dict,
                   reverse_mapping_dict, encoded_text, encoded_tree,
                   encoded_text_tree, padded_encoded_text_tree, output,
                   d_encoded_text, encoded_mapping, d_reverse_mapping_dict,
                   decoded_text, code, error>>

RemovePaddingBits ==
    /\ pc = "read"
    /\ LET r == remove_padding_bits(b)
       IN  /\ b' = r.bit_string
           /\ error' = r.error
           /\ pc' = IF r.error = "" THEN "unpadded" ELSE "decode_failed"
    /\ UNCHANGED <<text, stack, merges, root, mapping_dict,
                   reverse_mapping_dict, encoded_text, encoded_tree,
                   encoded_text_tree, padded_encoded_text_tree, output,
                   truncated, d_encoded_text, encoded_mapping,
                   d_reverse_mapping_dict, decoded_text, code>>

GetEncodedTextMapping ==
    /\ pc = "unpadded"
    /\ LET r == get_encoded_text_mapping(b)
       IN  /\ d_encoded_text' = r.bit_string
           /\ encoded_mapping' = r.encoded_tree
           /\ error' = r.error
           /\ pc' = IF r.error = "" THEN "split" ELSE "decode_failed"
    /\ UNCHANGED <<text, stack, merges, root, mapping_dict,
                   reverse_mapping_dict, encoded_text, encoded_tree,
                   encoded_text_tree, padded_encoded_text_tree, output,
                   truncated, b, d_reverse_mapping_dict, decoded_text, code>>

DecodeMapping ==
    /\ pc = "split"
    /\ LET r == decode_mapping(encoded_mapping)
       IN  /\ d_reverse_mapping_dict' = r.res_dict
           /\ error' = r.error
           /\ pc' = IF r.error = "" THEN "table" ELSE "decode_failed"
    /\ UNCHANGED <<text, stack, merges, root, mapping_dict,
                   reverse_mapping_dict, encoded_text, encoded_tree,
                   encoded_text_tree, padded_encoded_text_tree, output,
                   truncated, b, d_encoded_text, encoded_mapping,
                   decoded_text, code>>

\* decode_bits raises nothing : it returns whatever it has decoded
DecodeBits ==
    /\ pc = "table"
    /\ LET r == decode_bits(d_encoded_text, d_reverse_mapping_dict)
       IN  /\ decoded_text' = r.decoded_text
           /\ code' = r.code
    /\ pc' = "done"
    /\ UNCHANGED <<text, stack, merges, root, mapping_dict,
                   reverse_mapping_dict, encoded_text, encoded_tree,
                   encoded_text_tree, padded_encoded_text_tree, output,
                   truncated, b, d_encoded_text, encoded_mapping,
                   d_reverse_mapping_dict, error>>

Next ==
    \/ BuildFrequency
    \/ Merge
    \/ CreateMapping
    \/ EncodeText
    \/ EncodeMapping
    \/ EncodeTextTree
    \/ PadAndWrite
    \/ ReadBuffer
    \/ ReadTruncated
    \/ RemovePaddingBits
    \/ GetEncodedTextMapping
    \/ DecodeMapping
    \/ DecodeBits

Spec == Init /\ [][Next]_vars

(***************************************************************************)
(* The tree builder and the code assigner on their own, on longer texts.   *)
(***************************************************************************)
BuildInit ==
    /\ text \in SeqsUpTo(Alphabet, MaxBuildLen)
    /\ pc = "start"
    /\ Idle

BuildNext == BuildFrequency \/ Merge \/ CreateMapping

BuildSpec == BuildInit /\ [][BuildNext]_vars

(***************************************************************************)
(* The framing functions on their own: encode_text_tree,                   *)
(* pad_encoded_text_tree, remove_padding_bits, get_encoded_text_mapping,   *)
(* on any encoded text of up to MaxBits bits and on embedded tables of the *)
(* bit lengths of TreeBitLens.                                             *)
(***************************************************************************)
BitStrings(n) == SeqsUpTo({0, 1}, n)

\* the bits of a table of n bits: an opening brace, blanks, a closing brace
TablePayload(n) ==
    BytesToBits([i \in 1..(n \div 8) |->
                    IF i = 1 THEN 123 ELSE IF i = n \div 8 THEN 125 ELSE 32])

FrameInit ==
    /\ encoded_text \in BitStrings(MaxBits)
    /\ encoded_tree \in {TablePayload(n) : n \in TreeBitLens}
    /\ pc = "tree_encoded"
    /\ text = <<>> /\ stack = <<>> /\ merges = 0 /\ root = <<>>
    /\ mapping_dict = <<>> /\ reverse_mapping_dict = <<>>
    /\ encoded_text_tree = <<>>
    /\ padded_encoded_text_tree = <<>> /\ output = <<>>
    /\ truncated = FALSE /\ b = <<>>
    /\ d_encoded_text = <<>> /\ encoded_mapping = <<>>
    /\ d_reverse_mapping_dict = <<>>
    /\ decoded_text = <<>> /\ code = <<>> /\ error = ""

FrameNext ==
    \/ EncodeTextTree
    \/ PadAndWrite
    \/ ReadBuffer
    \/ RemovePaddingBits
    \/ GetEncodedTextMapping

FrameSpec == FrameInit /\ [][FrameNext]_vars

(***************************************************************************)
(* decode_bits on its own: any bit string of up to MaxScanBits bits        *)
(* against the table the encoder embeds for a text of up to MaxTableLen    *)
(* symbols, as decode_mapping reads it back.                               *)
(***************************************************************************)
RECURSIVE build_huffman_tree(_)
build_huffman_tree(s) ==
    IF Len(s) > 1 THEN build_huffman_tree(MergeNodes(s)) ELSE s

\* the table decompress reads from the file compress writes for text t
EmbeddedTable(t) ==
    decode_mapping(encode_mapping(
        create_mapping(build_huffman_tree(
            LeafStack(SortedByCount(build_frequency(t))))).dicts
            .reverse_mapping_dict)).res_dict

DecodeInit ==
    /\ d_encoded_text \in BitStrings(MaxScanBits)
    /\ d_reverse_mapping_dict \in
           {EmbeddedTable(t) : t \in SeqsUpTo(Alphabet, MaxTableLen) \ {<<>>}}
    /\ pc = "table"
    /\ text = <<>> /\ stack = <<>> /\ merges = 0 /\ root = <<>>
    /\ mapping_dict = <<>> /\ reverse_mapping_dict = <<>>
    /\ encoded_text = <<>> /\ encoded_tree = <<>> /\ encoded_text_tree = <<>>
    /\ padded_encoded_text_tree = <<>> /\ output = <<>>
    /\ truncated = FALSE /\ b = <<>>
    /\ encoded_mapping = <<>>
    /\ decoded_text = <<>> /\ code = <<>> /\ error = ""

DecodeNext == DecodeBits

DecodeSpec == DecodeInit /\ [][DecodeNext]_vars

(***************************************************************************)
(* Properties.                                                             *)
(***************************************************************************)
Range(s) == {s[i] : i \in 1..Len(s)}

\* the number of distinct symbols of the input
NumDistinct == Cardinality(Range(text))

IsPrefix(x, y) == Len(x) <= Len(y) /\ SubSeq(y, 1, Len(x)) = x

\* the symbols at the leaves under a node, left to right
RECURSIVE Leaves(_)
Leaves(node) ==
    IF node.char # NoChar THEN <<node.char>>
    ELSE Leaves(node.left[1]) \o Leaves(node.right[1])

\* every internal node weighs the sum of its two children
RECURSIVE WeightsAdd(_)
WeightsAdd(node) ==
    \/ node.char # NoChar
    \/ /\ node.freq = node.left[1].freq + node.right[1].freq
       /\ WeightsAdd(node.left[1])
       /\ WeightsAdd(node.right[1])

\* C1: a non-empty text that is encoded and then decoded, the buffer intact,
\* is never rejected and comes back exactly as it was
RoundTripIdentity ==
    (text # <<>> /\ ~truncated) =>
        /\ pc \notin {"failed", "decode_failed"}
        /\ (pc = "done" => decoded_text = text)

\* C2: every code recorded in mapping_dict and reverse_mapping_dict has at
\* least one bit
NoEmptyCode ==
    /\ \A i \in 1..Len(mapping_dict) : Len(mapping_dict[i].v) >= 1
    /\ \A i \in 1..Len(reverse_mapping_dict) :
           Len(reverse_mapping_dict[i].k) >= 1

\* C3: encoding the empty text fails with EmptyInputError and nothing is
\* encoded, framed, padded or written
EmptyInputFailsWithEmptyInputError ==
    text = <<>> =>
        /\ pc \in {"start", "build", "failed"}
        /\ (pc = "failed" => error = "EmptyInputError")
        /\ encoded_text_tree = <<>> /\ padded_encoded_text_tree = <<>>
        /\ output = <<>>

\* C4: decode_bits never returns with an accumulator that is non-empty and
\* matches no entry of the table
UnmatchedCodeFails ==
    ~(/\ pc = "done"
      /\ code # <<>>
      /\ ~DictHas(d_reverse_mapping_dict, BitStr(code)))

\* C5: the padded string is a whole number of bytes, its first 8 bits hold a
\* count in 1..8, it is that field, the input and that many zeros, and an
\* aligned input gets 8 of them
PaddingInvariant ==
    pc \in {"written", "read", "unpadded", "split"} =>
        LET p == padded_encoded_text_tree
            n == BitsToInt(SubSeq(p, 1, 8))
        IN  /\ Len(p) % 8 = 0
            /\ n \in 1..8
            /\ p = SubSeq(p, 1, 8) \o encoded_text_tree \o Zeros(n)
            /\ (Len(encoded_text_tree) % 8 = 0 => n = 8)

AlignedInputPadded ==
    /\ pc = "written"
    /\ Len(encoded_text_tree) % 8 = 0
    /\ Len(padded_encoded_text_tree) = Len(encoded_text_tree) + 16

\* C6: with two distinct symbols or more, each symbol has exactly one code
\* and no code is a prefix of, or equal to, the code of another symbol
PrefixFreedom ==
    (pc = "mapped" /\ NumDistinct >= 2) =>
        /\ Len(mapping_dict) = NumDistinct
        /\ {mapping_dict[i].k : i \in 1..Len(mapping_dict)} = Range(text)
        /\ \A i, j \in 1..Len(mapping_dict) :
               i # j => ~IsPrefix(mapping_dict[i].v, mapping_dict[j].v)

ThreeSymbolsMapped == pc = "mapped" /\ NumDistinct >= 3

\* C7: the tree_length field is 16 bits wide and holds the bit length of
\* the embedded table, and the decoder splits the intact buffer into the
\* encoded text and the embedded table the encoder framed
TreeLengthFieldIs16Bits ==
    /\ pc \in {"framed", "written", "read", "unpadded", "split"} =>
           /\ Len(encoded_text_tree)
                  = 16 + Len(encoded_text) + Len(encoded_tree)
           /\ BitsToInt(SubSeq(encoded_text_tree, 1, 16)) = Len(encoded_tree)
    /\ (pc = "split" /\ ~truncated) =>
           /\ d_encoded_text = encoded_text
           /\ encoded_mapping = encoded_tree

\* C8 as claimed: decoding a buffer less its last byte ends in
\* TruncatedBufferError or UnmatchedCodeError and returns no text
TruncatedDecodeFailsAsTruncatedOrUnmatched ==
    truncated =>
        /\ pc \in {"read", "unpadded", "split", "decode_failed"}
        /\ (pc = "decode_failed" =>
               error \in {"TruncatedBufferError", "UnmatchedCodeError"})

\* C8 as amended: decoding a buffer less its last byte ends in the
\* OverflowError, UnicodeDecodeError or JSONDecodeError of decode_mapping
\* and returns no text
TruncatedDecodeFailsInDecodeMapping ==
    truncated =>
        /\ pc \in {"read", "unpadded", "split", "decode_failed"}
        /\ (pc = "decode_failed" =>
               error \in {"OverflowError", "UnicodeDecodeError",
                          "JSONDecodeError"})
        /\ decoded_text = <<>>

TruncatedDecodeFailed ==
    /\ truncated
    /\ pc = "decode_failed"
    /\ error = "UnicodeDecodeError"
    /\ Len(encoded_text) >= 8

\* C9: every merge removes the two nodes of lowest weight (no node that
\* stays weighs strictly less than a removed one), and puts back one node
\* that weighs their sum, the first removed on its left and the second on
\* its right
MergeTakesTwoLowest ==
    [][(pc = "build" /\ pc' = "build" /\ Len(stack) > 1) =>
           LET node_1 == stack[Len(stack)]
               node_2 == stack[Len(stack) - 1]
           IN  /\ \A i \in 1..(Len(stack) - 2) :
                      /\ stack[i].freq >= node_1.freq
                      /\ stack[i].freq >= node_2.freq
               /\ Len(stack') = Len(stack) - 1
               /\ \E i \in 1..Len(stack') :
                      stack'[i] = [freq |-> node_1.freq + node_2.freq,
                                   char |-> NoChar,
                                   left |-> <<node_1>>, right |-> <<node_2>>]
      ]_vars

\* C10: with N >= 1 symbols the loop has done N - Len(stack) merges while it
\* runs, and ends after N - 1 merges with one node, which has every symbol
\* at exactly one leaf and weighs the length of the text
RootCoversAllLeaves ==
    NumDistinct >= 1 =>
        /\ pc # "failed"
        /\ (pc = "build" =>
               Len(stack) >= 1 /\ merges = NumDistinct - Len(stack))
        /\ (pc = "mapped" =>
               /\ merges = NumDistinct - 1
               /\ stack = <<>>
               /\ Len(root) = 1
               /\ Len(Leaves(root[1])) = NumDistinct
               /\ Range(Leaves(root[1])) = Range(text)
               /\ root[1].freq = Len(text)
               /\ WeightsAdd(root[1]))

FourLeavesBuilt == pc = "mapped" /\ NumDistinct = 4 /\ merges = 3

====
